---- MODULE Spec2Model ----
(***************************************************************************)
(* Model of siemens-acronyms-mcp: the Access Gate (MCPAuthMiddleware in    *)
(* auth_middleware.py and the function middleware in main.py), the         *)
(* Glossary Store (AcronymsService in acronyms_service.py) and the         *)
(* surfaces that serve a search (main.py, mcp_service.py).                 *)
(*                                                                         *)
(* Python's None is the model value None.  Strings are TLA+ strings; TLC   *)
(* evaluates Len, SubSeq and \o on them, so slicing, prefix tests,         *)
(* splitting and trimming are computed character by character.             *)
(***************************************************************************)
EXTENDS Integers, Sequences, FiniteSets, TLC

VARIABLES
    environ,    \* os.environ: MCP_API_KEYS and GLOSSARY_API_KEYS (None = unset)
    req,        \* the inbound HTTP request being served (Nil before the first)
    gate,       \* what MCPAuthMiddleware.dispatch answered for req (Nil = not yet run)
    app         \* what the application of main.py answered for req (Nil = not yet run)

gateVars == <<environ, req, gate, app>>

VARIABLES
    file,           \* the source file on disk: exists, st_mtime, content
    data,           \* AcronymsService.data
    last_mtime,     \* AcronymsService.last_mtime (NoMtime = None)
    lock,           \* AcronymsService._lock: "free" or "held"
    pc,             \* where the call being served stands: idle, exists, stat, lock,
                    \* read, compute, done
    call,           \* the call being served: op, query, threshold, limit
    current_mtime,  \* load_data's local current_mtime
    ret,            \* what the call returned: the exception raised (None = none), the value
    exit,           \* the way load_data left in this call: missing, unchanged, loaded,
                    \* json_error, error, raised ("none" = it has not left yet)
    pre_mtime,      \* history: last_mtime when the call started
    touched,        \* history: what happened to the file during the call: "no",
                    \* "content" (rewritten under the same st_mtime), "stamp"
    prev,           \* history: exit of the last call that ran from start to end on
                    \* the file as it is now ("none" = there is none)
    ready,          \* the call that a caller has issued and that waits for the event
                    \* loop while another one runs: its operation ("none" = no call waits)
    hist            \* history: failed = the last assignment of data was a failure
                    \* path's (file missing, exception caught); fresh = a load has
                    \* succeeded and the file has not been touched since it was read

storeVars == <<file, data, last_mtime, lock, pc, call, current_mtime, ret, exit,
               pre_mtime, touched, prev, ready, hist>>

VARIABLES
    inbound,    \* the request a surface (REST route, /mcp route, MCP tool) is serving
    outbound    \* what the surface answered to inbound (Nil = not yet)

surfaceVars == <<inbound, outbound>>

vars == <<gateVars, storeVars, surfaceVars>>

\* Python's None where a string is expected, and where a record is expected
None == "None"
Nil == [nil |-> TRUE]

(***************************************************************************)
(* Bounds of the model.                                                    *)
(***************************************************************************)
MaxKeyLen == 7      \* longest API key a client presents
MaxMtime == 2       \* modification times of the source file are 1..MaxMtime

(***************************************************************************)
(* String helpers (Python str methods used by the source).                 *)
(***************************************************************************)
Min(a, b) == IF a <= b THEN a ELSE b

\* s.startswith(p)
StartsWith(s, p) == Len(s) >= Len(p) /\ SubSeq(s, 1, Len(p)) = p

\* s[:n]
Take(s, n) == SubSeq(s, 1, Min(n, Len(s)))

\* sub in s
Contains(s, sub) ==
    \E i \in 0..(Len(s) - Len(sub)) : SubSeq(s, i + 1, i + Len(sub)) = sub

Whitespace == {" "}

\* s.strip()
RECURSIVE Strip(_)
Strip(s) ==
    IF Len(s) = 0 THEN s
    ELSE IF SubSeq(s, 1, 1) \in Whitespace THEN Strip(SubSeq(s, 2, Len(s)))
    ELSE IF SubSeq(s, Len(s), Len(s)) \in Whitespace THEN Strip(SubSeq(s, 1, Len(s) - 1))
    ELSE s

\* s.split(","): the pieces between commas, empty pieces included
RECURSIVE SplitFrom(_, _, _)
SplitFrom(s, i, start) ==
    IF i > Len(s) THEN <<SubSeq(s, start, Len(s))>>
    ELSE IF SubSeq(s, i, i) = ","
         THEN <<SubSeq(s, start, i - 1)>> \o SplitFrom(s, i + 1, i + 1)
         ELSE SplitFrom(s, i + 1, start)

Split(s) == SplitFrom(s, 1, 1)

\* [k.strip() for k in s.split(",") if k.strip()]
ParseKeys(s) ==
    LET parts == Split(s)
        kept  == SelectSeq(parts, LAMBDA k : Strip(k) # "")
    IN  [i \in 1..Len(kept) |-> Strip(kept[i])]

Range(f) == {f[i] : i \in DOMAIN f}

(***************************************************************************)
(* Requests.                                                               *)
(***************************************************************************)
\* API keys a client may present: "", "z", "zz", ... up to MaxKeyLen characters
RECURSIVE Repeat(_, _)
Repeat(c, n) == IF n = 0 THEN "" ELSE c \o Repeat(c, n - 1)

KeyValues == {Repeat("z", n) : n \in 0..MaxKeyLen}

\* the two casings of the header name that clients send
HeaderNames == {"X-API-Key", "x-api-key"}

\* str.lower() on the header names of the model
Lower(name) == IF name = "X-API-Key" THEN "x-api-key" ELSE name

\* request.headers: no header, or one X-API-Key header in either casing
HeaderSets == {<<>>} \cup {<<<<n, v>>>> : n \in HeaderNames, v \in KeyValues}

\* starlette Headers.get(name): case-insensitive, first match, None when absent
HeadersGet(headers, name) ==
    LET hits == SelectSeq(headers, LAMBDA h : Lower(h[1]) = Lower(name))
    IN  IF Len(hits) = 0 THEN None ELSE hits[1][2]

Paths == {"/mcp", "/mcp/messages", "/mc", "/health", "/api/v1/search"}

\* request bodies as main.py's middleware reads them
Bodies ==
    { [kind |-> "invalid", method |-> None,         tool |-> None],
      [kind |-> "object",  method |-> "test",       tool |-> None],
      [kind |-> "object",  method |-> "tools/call", tool |-> "get_health"],
      [kind |-> "object",  method |-> "tools/call", tool |-> "search_acronyms"] }


Requests == [path : Paths, headers : HeaderSets, body : Bodies]

\* values of MCP_API_KEYS (None = unset) and of GLOSSARY_API_KEYS
EnvValues == {None, "", ",", " ", "zz", "zz,zzzzzzz", " zz , z"}
GlossaryEnvValues == {None, "zz", "zz,zzzzzzz"}

\* os.getenv(name, "")
GetEnv(e, name) == IF e[name] = None THEN "" ELSE e[name]

(***************************************************************************)
(* MCPAuthMiddleware.dispatch (auth_middleware.py).  The answer records    *)
(* whether call_next was invoked, the response the middleware built        *)
(* itself, and the lines it logged.                                        *)
(***************************************************************************)
Forward(logged) ==
    [outcome |-> "forward", status |-> 0, headers |-> {}, error |-> None,
     nextCalls |-> 1, log |-> logged]

\* a rejection in the challenge form: 401 with a WWW-Authenticate header
JSONResponseChallenge(code, error, hdrs, logged) ==
    [outcome |-> "reject", status |-> 401, headers |-> hdrs \cup {"WWW-Authenticate"},
     error |-> error, nextCalls |-> 0, log |-> logged]

\* JSONResponse(status_code=..., content={"error": ...}, headers=...)
JSONResponse(code, error, hdrs, logged) ==
    [outcome |-> "reject", status |-> code, headers |-> hdrs, error |-> error,
     nextCalls |-> 0, log |-> logged]

\* api_key[:6] followed by "..."
RedactedKey(api_key) == Take(api_key, 6) \o "..."

\* "X" or "Y" of Python on header values: the first truthy one, else the last
PyOr(a, b) == IF a # None /\ a # "" THEN a ELSE b

\* the backward-compatibility branch left out
NoKeysConfiguredNever(valid_keys_str) == FALSE

\* the test of "if not valid_keys_str"
NoKeysConfigured(valid_keys_str) == valid_keys_str = ""

\* the key looked up in the raw configuration string instead of the parsed list
KeyIsValidSubstring(api_key, valid_keys_str, valid_keys) == Contains(valid_keys_str, api_key)

\* the test of "api_key not in valid_keys", negated
KeyIsValid(api_key, valid_keys_str, valid_keys) == api_key \in Range(valid_keys)

\* the status code of both rejections
DenyStatus == 403

\* the path test left out: every route is checked
IsMcpPathAlways(path) == TRUE

\* request.url.path.startswith("/mcp")
IsMcpPath(path) == StartsWith(path, "/mcp")

dispatch(e, r) ==
    IF IsMcpPath(r.path) THEN
        LET valid_keys_str == GetEnv(e, "MCP_API_KEYS") IN
        IF NoKeysConfigured(valid_keys_str)
        THEN Forward(<<"No MCP_API_KEYS configured - allowing MCP access">>)
        ELSE
            LET valid_keys == ParseKeys(valid_keys_str)
                api_key == PyOr(HeadersGet(r.headers, "X-API-Key"),
                                HeadersGet(r.headers, "x-api-key"))
            IN  IF api_key = None \/ api_key = ""
                THEN JSONResponse(DenyStatus, "API key required for MCP access", {},
                                  <<"MCP request to " \o r.path \o " missing API key">>)
                ELSE IF ~KeyIsValid(api_key, valid_keys_str, valid_keys)
                THEN JSONResponse(DenyStatus, "Invalid API key", {},
                                  <<"Invalid MCP API key attempted: " \o RedactedKey(api_key)>>)
                ELSE Forward(<<"Valid MCP API key accepted: " \o RedactedKey(api_key)>>)
    ELSE Forward(<<>>)

(***************************************************************************)
(* The application assembled in main.py: CORS, then the function           *)
(* middleware mcp_auth_middleware, then the routes.                        *)
(***************************************************************************)
\* validate_api_key accepting only the first configured key
validate_api_key_first(e, r) ==
    LET api_key == HeadersGet(r.headers, "X-API-Key") IN
    IF api_key = None \/ api_key = "" THEN None
    ELSE LET allowed_keys == ParseKeys(GetEnv(e, "GLOSSARY_API_KEYS"))
         IN  IF allowed_keys # <<>> /\ api_key = allowed_keys[1] THEN api_key ELSE None
validate_api_key(e, r) ==
    LET api_key == HeadersGet(r.headers, "X-API-Key") IN
    IF api_key = None \/ api_key = "" THEN None
    ELSE LET allowed_keys == ParseKeys(GetEnv(e, "GLOSSARY_API_KEYS"))
         IN  IF api_key \in Range(allowed_keys) THEN api_key ELSE None

mcp_auth_middleware(e, r) ==
    IF StartsWith(r.path, "/mcp") THEN
        IF r.body.kind = "object" /\ r.body.method = "tools/call"
           /\ r.body.tool = "get_health"
        THEN Forward(<<>>)
        ELSE IF validate_api_key(e, r) = None
             THEN JSONResponse(401, "Invalid or missing API key",
                               {"WWW-Authenticate"}, <<>>)
             ELSE Forward(<<>>)
    ELSE Forward(<<>>)

(***************************************************************************)
(* Gate actions.                                                           *)
(***************************************************************************)
GateInit ==
    /\ environ \in [MCP_API_KEYS : EnvValues, GLOSSARY_API_KEYS : GlossaryEnvValues]
    /\ req = Nil
    /\ gate = Nil
    /\ app = Nil

\* a client sends a request (the previous one has been answered)
Receive(r) ==
    /\ req = Nil \/ (gate # Nil /\ app # Nil)
    /\ req' = r
    /\ gate' = Nil
    /\ app' = Nil
    /\ UNCHANGED environ
    /\ UNCHANGED storeVars
    /\ UNCHANGED surfaceVars

\* the request runs through MCPAuthMiddleware.dispatch
Dispatch ==
    /\ req # Nil
    /\ gate = Nil
    /\ gate' = dispatch(environ, req)
    /\ UNCHANGED <<environ, req, app>>
    /\ UNCHANGED storeVars
    /\ UNCHANGED surfaceVars

\* the same request runs through the application of main.py
AppRequest ==
    /\ req # Nil
    /\ app = Nil
    /\ app' = mcp_auth_middleware(environ, req)
    /\ UNCHANGED <<environ, req, gate>>
    /\ UNCHANGED storeVars
    /\ UNCHANGED surfaceVars

GateNext ==
    \/ \E r \in Requests : Receive(r)
    \/ Dispatch
    \/ AppRequest


(***************************************************************************)
(* The source file and its JSON content (acronyms_service.py).             *)
(***************************************************************************)
\* self.last_mtime = None
NoMtime == 0

\* glossary entries: JSON objects with string fields
EDA == [term |-> "EDA", full_name |-> "Electronic Design Automation"]
Teamcenter == [term |-> "Teamcenter"]
XYZ123 == [term |-> "XYZ123", description |-> "Placeholder"]

EDB == [term |-> "EDB"]
Untitled == [description |-> "No term"]
\* an entry of a term and a description, without a full_name
WBS == [term |-> "WBS", description |-> "Pdf"]

VersionA == <<EDA, Teamcenter>>
VersionB == <<Teamcenter, XYZ123>>
VersionC == <<EDB, EDA, Untitled>>
VersionD == <<Teamcenter, WBS>>

\* JSON values held in data: a list of entries, or a non-empty string
JList(items) == [type |-> "list", items |-> items]
JStr == [type |-> "str", items |-> <<>>]

EmptyList == JList(<<>>)

\* what json.load finds in the file: text that is no JSON, or a document with a
\* list, an object (one key) or a number at the top
Malformed == [syntax |-> "invalid", top |-> "none", key |-> None, val |-> EmptyList]
ListDoc(items) == [syntax |-> "json", top |-> "list", key |-> None, val |-> JList(items)]
DictDoc(k, v) == [syntax |-> "json", top |-> "dict", key |-> k, val |-> v]
NumberDoc == [syntax |-> "json", top |-> "number", key |-> None, val |-> EmptyList]

Contents ==
    { Malformed, ListDoc(VersionA), ListDoc(VersionB), ListDoc(<<>>),
      DictDoc("acronyms", JList(VersionB)), DictDoc("terms", JList(VersionA)),
      DictDoc("acronyms", JStr), NumberDoc }

Missing == [exists |-> FALSE, mtime |-> NoMtime, content |-> Malformed]

Files == {Missing} \cup [exists : {TRUE}, mtime : 1..MaxMtime, content : Contents]

\* the files that the searches with every threshold and limit run on
SearchContents == Contents \cup {ListDoc(VersionC), ListDoc(VersionD)}

SearchFiles == {Missing} \cup [exists : {TRUE}, mtime : 1..MaxMtime, content : SearchContents]

(***************************************************************************)
(* AcronymsService.load_data, statement by statement.  The coroutine never *)
(* suspends (the lock is free whenever it is asked for), so no other call  *)
(* runs in between; the file system can change between its system calls.   *)
(***************************************************************************)
\* the exceptions the statements of load_data raise
ExceptionSubclasses == {"FileNotFoundError", "JSONDecodeError"}

\* only the first except clause is there
CaughtJsonOnly(exc) == exc = "JSONDecodeError"

\* except json.JSONDecodeError / except Exception
Caught(exc) == exc = "JSONDecodeError" \/ exc \in ExceptionSubclasses

\* the file is taken as unchanged when it is not newer
UnchangedNotNewer(last, current) == last # NoMtime /\ current <= last

\* the test never succeeds: the file is parsed on every call
UnchangedNever(last, current) == FALSE

\* self.last_mtime is not None and current_mtime == self.last_mtime
Unchanged(last, current) == last # NoMtime /\ current = last

\* the branches on the shape of the parsed document
Collection(content) ==
    IF content.top = "dict" /\ content.key = "acronyms" THEN content.val
    ELSE IF content.top = "list" THEN content.val
    ELSE EmptyList

NoCall == [op |-> "none", query |-> "", threshold |-> 0, limit |-> 0]
NoRet == [raised |-> None, value |-> <<>>]

\* load_data returns normally, to the caller or into search / get_all
Returns(how) ==
    /\ exit' = how
    /\ IF call.op = "load_data"
       THEN pc' = "done" /\ ret' = NoRet
       ELSE pc' = "compute" /\ ret' = ret

\* an exception raised inside the try block
Except(exc) ==
    IF Caught(exc)
    THEN /\ data' = EmptyList
         /\ hist' = [hist EXCEPT !.failed = TRUE]
         /\ Returns(IF exc = "JSONDecodeError" THEN "json_error" ELSE "error")
    ELSE /\ data' = data
         /\ hist' = hist
         /\ exit' = "raised"
         /\ pc' = "done"
         /\ ret' = [raised |-> exc, value |-> <<>>]

\* a caller issues a call (a request handler awaits load_data, search or get_all);
\* the call waits until the event loop runs it
Submit(op) ==
    /\ ready = "none"
    /\ ready' = op
    /\ UNCHANGED <<file, data, last_mtime, lock, pc, call, current_mtime, ret, exit,
                   pre_mtime, touched, prev>>
    /\ UNCHANGED hist
    /\ UNCHANGED gateVars
    /\ UNCHANGED surfaceVars

\* the event loop runs the waiting call once the running one has returned; search
\* and get_all begin with "await self.load_data()"
Start(c) ==
    /\ pc = "idle"
    /\ ready = c.op
    /\ ready' = "none"
    /\ pc' = "exists"
    /\ call' = c
    /\ pre_mtime' = last_mtime
    /\ UNCHANGED <<file, data, last_mtime, lock, current_mtime, ret, exit, touched, prev>>
    /\ UNCHANGED hist
    /\ UNCHANGED gateVars
    /\ UNCHANGED surfaceVars

\* LoadExists in a load_data that clears the collection before it looks at the file
LoadExistsClearsFirst ==
    /\ pc = "exists"
    /\ data' = EmptyList
    /\ IF ~file.exists
       THEN /\ hist' = [hist EXCEPT !.failed = TRUE]
            /\ Returns("missing")
       ELSE pc' = "stat" /\ UNCHANGED <<ret, exit, hist>>
    /\ UNCHANGED <<file, last_mtime, lock, call, current_mtime, pre_mtime, touched, prev>>
    /\ UNCHANGED ready
    /\ UNCHANGED gateVars
    /\ UNCHANGED surfaceVars
\* if not file_path.exists(): self.data = []; return
LoadExists ==
    /\ pc = "exists"
    /\ IF ~file.exists
       THEN /\ data' = EmptyList
            /\ hist' = [hist EXCEPT !.failed = TRUE]
            /\ Returns("missing")
       ELSE pc' = "stat" /\ UNCHANGED <<data, ret, exit, hist>>
    /\ UNCHANGED <<file, last_mtime, lock, call, current_mtime, pre_mtime, touched, prev>>
    /\ UNCHANGED ready
    /\ UNCHANGED gateVars
    /\ UNCHANGED surfaceVars

\* current_mtime = file_path.stat().st_mtime, and the test on last_mtime
LoadStat ==
    /\ pc = "stat"
    /\ IF ~file.exists
       THEN Except("FileNotFoundError") /\ UNCHANGED current_mtime
       ELSE /\ current_mtime' = file.mtime
            /\ data' = data
            /\ hist' = hist
            /\ IF Unchanged(last_mtime, file.mtime)
               THEN Returns("unchanged")
               ELSE pc' = "lock" /\ UNCHANGED <<ret, exit>>
    /\ UNCHANGED <<file, last_mtime, lock, call, pre_mtime, touched, prev>>
    /\ UNCHANGED ready
    /\ UNCHANGED gateVars
    /\ UNCHANGED surfaceVars

\* the load step entered without taking the lock
LoadAcquireNoLock ==
    /\ pc = "lock"
    /\ lock' = lock
    /\ pc' = "read"
    /\ UNCHANGED <<file, data, last_mtime, call, current_mtime, ret, exit, pre_mtime,
                   touched, prev>>
    /\ UNCHANGED <<ready, hist>>
    /\ UNCHANGED gateVars
    /\ UNCHANGED surfaceVars

\* async with self._lock: the lock is taken
LoadAcquire ==
    /\ pc = "lock"
    /\ lock = "free"
    /\ lock' = "held"
    /\ pc' = "read"
    /\ UNCHANGED <<file, data, last_mtime, call, current_mtime, ret, exit, pre_mtime,
                   touched, prev>>
    /\ UNCHANGED <<ready, hist>>
    /\ UNCHANGED gateVars
    /\ UNCHANGED surfaceVars

\* LoadRead without "self.last_mtime = current_mtime"
LoadReadForgetsMtime ==
    /\ pc = "read"
    /\ lock' = "free"
    /\ IF ~file.exists
       THEN Except("FileNotFoundError") /\ UNCHANGED last_mtime
       ELSE IF file.content.syntax = "invalid"
       THEN Except("JSONDecodeError") /\ UNCHANGED last_mtime
       ELSE /\ data' = Collection(file.content)
            /\ last_mtime' = last_mtime
            /\ hist' = [failed |-> FALSE, fresh |-> TRUE]
            /\ Returns("loaded")
    /\ UNCHANGED <<file, call, current_mtime, pre_mtime, touched, prev>>
    /\ UNCHANGED ready
    /\ UNCHANGED gateVars
    /\ UNCHANGED surfaceVars

\* LoadRead with the list held extended in place (self.data.extend(...)) instead
\* of replaced
LoadReadInPlace ==
    /\ pc = "read"
    /\ lock' = "free"
    /\ IF ~file.exists
       THEN Except("FileNotFoundError") /\ UNCHANGED last_mtime
       ELSE IF file.content.syntax = "invalid"
       THEN Except("JSONDecodeError") /\ UNCHANGED last_mtime
       ELSE /\ data' = JList(data.items \o Collection(file.content).items)
            /\ last_mtime' = current_mtime
            /\ hist' = [failed |-> FALSE, fresh |-> TRUE]
            /\ Returns("loaded")
    /\ UNCHANGED <<file, call, current_mtime, pre_mtime, touched, prev>>
    /\ UNCHANGED ready
    /\ UNCHANGED gateVars
    /\ UNCHANGED surfaceVars

\* open, json.load, the assignment of data and of last_mtime; the lock is released
LoadRead ==
    /\ pc = "read"
    /\ lock' = "free"
    /\ IF ~file.exists
       THEN Except("FileNotFoundError") /\ UNCHANGED last_mtime
       ELSE IF file.content.syntax = "invalid"
       THEN Except("JSONDecodeError") /\ UNCHANGED last_mtime
       ELSE /\ data' = Collection(file.content)
            /\ last_mtime' = current_mtime
            /\ hist' = [failed |-> FALSE, fresh |-> TRUE]
            /\ Returns("loaded")
    /\ UNCHANGED <<file, call, current_mtime, pre_mtime, touched, prev>>
    /\ UNCHANGED ready
    /\ UNCHANGED gateVars
    /\ UNCHANGED surfaceVars

(***************************************************************************)
(* AcronymsService.search and get_all.                                     *)
(***************************************************************************)
\* the defaults of search's parameters, and the floor of the substring rule
DefaultThreshold == 80
DefaultLimit == 10
PartialFloor == 60

UpperCase == "ABCDEFGHIJKLMNOPQRSTUVWXYZ"
LowerCase == "abcdefghijklmnopqrstuvwxyz"

\* str.lower()
RECURSIVE LowerStr(_)
LowerStr(s) ==
    IF Len(s) = 0 THEN s
    ELSE LET c == SubSeq(s, 1, 1)
             hits == {i \in 1..Len(UpperCase) : SubSeq(UpperCase, i, i) = c}
             lc == IF hits = {} THEN c
                   ELSE LET i == CHOOSE i \in hits : TRUE IN SubSeq(LowerCase, i, i)
         IN  lc \o LowerStr(SubSeq(s, 2, Len(s)))

Chars(s) == {SubSeq(s, i, i) : i \in 1..Len(s)}

\* rapidfuzz.fuzz.WRatio on the strings of the model, without a processor (the
\* comparison is case-sensitive), integer part of the score:
\*   an empty argument scores 0; equal strings score 100; strings with no
\*   character in common score 0;
\*   "EDA" in "EDA Electronic Design Automation": the lengths differ by more than
\*   8 times, so the partial ratio 100 is scaled by 0.6;
\*   "EDA" against "Teamcenter": no common character (the scorer sees upper case);
\*   "EDA" against "EDB": equal lengths, so the score is the plain ratio
\*   2 * 2 / (3 + 3) = 66.67.
\* Every pair of a query and a searchable string of the model falls under one of
\* these rules; the last branch is not reached.
WRatio(q, s) ==
    IF q = "" \/ s = "" THEN 0
    ELSE IF q = s THEN 100
    ELSE IF Chars(q) \cap Chars(s) = {} THEN 0
    ELSE IF q = "EDA" /\ s = "EDA Electronic Design Automation" THEN 60
    ELSE IF q = "EDA" /\ s = "EDB" THEN 66
    ELSE 0

\* the string search scores for an entry: term, then full_name when there is one
SearchStr(item) ==
    LET term == IF "term" \in DOMAIN item THEN item.term ELSE ""
    IN  IF "full_name" \in DOMAIN item THEN term \o " " \o item.full_name ELSE term

\* a stable sort by score, descending
RECURSIVE InsertDesc(_, _)
InsertDesc(sorted, x) ==
    IF Len(sorted) = 0 THEN <<x>>
    ELSE IF Head(sorted).score >= x.score
         THEN <<Head(sorted)>> \o InsertDesc(Tail(sorted), x)
         ELSE <<x>> \o sorted

RECURSIVE SortDesc(_)
SortDesc(seq) ==
    IF Len(seq) = 0 THEN <<>>
    ELSE InsertDesc(SortDesc(SubSeq(seq, 1, Len(seq) - 1)), seq[Len(seq)])

\* process.extract(query, choices, scorer=fuzz.WRatio, limit=limit): the limit best
\* choices, best first, ties in the order of the choices
Extract(query, choices, limit) ==
    Take(SortDesc([i \in 1..Len(choices) |->
                      [str |-> choices[i], score |-> WRatio(query, choices[i]), idx |-> i]]),
         limit)

\* the test on the query left out
EmptyQueryNever(query) == FALSE

\* the test of "if not query"
EmptyQuery(query) == query = ""

\* only the matches that reach the threshold are kept
SelectedByThresholdOnly(m, query, threshold) == m.score >= threshold

\* the substring test left out: the floor alone admits a match below the threshold
SelectedByFloorAlone(m, query, threshold) ==
    \/ m.score >= threshold
    \/ m.score >= PartialFloor
\* the if / elif on a match of process.extract: the threshold, or the substring
\* rule with its lower floor
Selected(m, query, threshold) ==
    \/ m.score >= threshold
    \/ (Contains(LowerStr(m.str), LowerStr(query)) /\ m.score >= PartialFloor)

\* a stable sort by score, ascending
RECURSIVE InsertAsc(_, _)
InsertAsc(sorted, x) ==
    IF Len(sorted) = 0 THEN <<x>>
    ELSE IF Head(sorted).score <= x.score
         THEN <<Head(sorted)>> \o InsertAsc(Tail(sorted), x)
         ELSE <<x>> \o sorted

\* results.sort(key=...) without reverse=True
RECURSIVE SortResultsAscending(_)
SortResultsAscending(results) ==
    IF Len(results) = 0 THEN <<>>
    ELSE InsertAsc(SortResultsAscending(SubSeq(results, 1, Len(results) - 1)),
                   results[Len(results)])

\* results.sort(key=lambda x: x["score"], reverse=True)
SortResults(results) == SortDesc(results)

\* item = searchable_items[idx][1]; item["score"] = score, without the copy: the
\* stored entry and the result are one object, and both carry the score
AttachScoreInPlace(item, score) ==
    [stored |-> ("score" :> score) @@ item, result |-> ("score" :> score) @@ item]

\* item = searchable_items[idx][1].copy(); item["score"] = score: the entry as the
\* store holds it afterwards and the record that goes into the results
AttachScore(item, score) ==
    [stored |-> item, result |-> ("score" :> score) @@ item]

\* the matches of process.extract that pass the if / elif of lines 127 to 135
SelectedMatches(items, query, threshold, limit) ==
    LET searchable == [i \in 1..Len(items) |-> SearchStr(items[i])]
        matches == Extract(query, searchable, limit)
    IN  SelectSeq(matches, LAMBDA m : Selected(m, query, threshold))

\* the body of search after load_data has returned: the exception it raises
\* (None = none) and the value it returns
SearchBody(d, query, threshold, limit) ==
    IF d = EmptyList THEN NoRet
    ELSE IF EmptyQuery(query) THEN NoRet
    ELSE IF d.type # "list" THEN [raised |-> "AttributeError", value |-> <<>>]
    ELSE
        LET items == d.items
            selected == SelectedMatches(items, query, threshold, limit)
            results == [i \in 1..Len(selected) |->
                           AttachScore(items[selected[i].idx], selected[i].score).result]
        IN  [raised |-> None, value |-> Take(SortResults(results), limit)]

\* the collection the store holds when the body of search is over: the entries
\* of the selected matches as the loop of lines 126 to 135 leaves them
SearchStore(d, query, threshold, limit) ==
    IF d = EmptyList \/ EmptyQuery(query) \/ d.type # "list" THEN d
    ELSE
        LET items == d.items
            selected == SelectedMatches(items, query, threshold, limit)
            hit(i) == {k \in DOMAIN selected : selected[k].idx = i}
        IN  JList([i \in 1..Len(items) |->
                     IF hit(i) = {} THEN items[i]
                     ELSE AttachScore(items[i],
                                      selected[CHOOSE k \in hit(i) : TRUE].score).stored])

\* the body of get_all after load_data has returned: self.data.copy()
GetAllBody(d) ==
    IF d.type # "list" THEN [raised |-> "AttributeError", value |-> <<>>]
    ELSE [raised |-> None, value |-> d.items]

\* search, lines 101 to 140
SearchCompute ==
    /\ pc = "compute"
    /\ call.op = "search"
    /\ ret' = SearchBody(data, call.query, call.threshold, call.limit)
    /\ data' = SearchStore(data, call.query, call.threshold, call.limit)
    /\ pc' = "done"
    /\ UNCHANGED <<file, last_mtime, lock, call, current_mtime, exit, pre_mtime,
                   touched, prev>>
    /\ UNCHANGED <<ready, hist>>
    /\ UNCHANGED gateVars
    /\ UNCHANGED surfaceVars

\* get_all, line 145
GetAllCompute ==
    /\ pc = "compute"
    /\ call.op = "get_all"
    /\ ret' = GetAllBody(data)
    /\ pc' = "done"
    /\ UNCHANGED <<file, data, last_mtime, lock, call, current_mtime, exit, pre_mtime,
                   touched, prev>>
    /\ UNCHANGED <<ready, hist>>
    /\ UNCHANGED gateVars
    /\ UNCHANGED surfaceVars

\* the caller has its answer; the service is idle again
Ack ==
    /\ pc = "done"
    /\ pc' = "idle"
    /\ call' = NoCall
    /\ ret' = NoRet
    /\ exit' = "none"
    /\ current_mtime' = NoMtime
    /\ pre_mtime' = NoMtime
    /\ touched' = "no"
    /\ prev' = IF touched = "no" THEN exit ELSE "none"
    /\ UNCHANGED <<file, data, last_mtime, lock>>
    /\ UNCHANGED <<ready, hist>>
    /\ UNCHANGED gateVars
    /\ UNCHANGED surfaceVars

(***************************************************************************)
(* The file system: another process rewrites or removes the source file.   *)
(***************************************************************************)
WriteFile(c, m) ==
    /\ pc # "done"
    /\ file' = [exists |-> TRUE, mtime |-> m, content |-> c]
    /\ file' # file
    /\ touched' = IF pc = "idle" THEN "no"
                  ELSE IF file.exists /\ file.mtime = m /\ touched # "stamp" THEN "content"
                  ELSE "stamp"
    /\ prev' = "none"
    /\ UNCHANGED <<data, last_mtime, lock, pc, call, current_mtime, ret, exit, pre_mtime>>
    /\ hist' = [hist EXCEPT !.fresh = FALSE]
    /\ UNCHANGED ready
    /\ UNCHANGED gateVars
    /\ UNCHANGED surfaceVars

DeleteFile ==
    /\ pc # "done"
    /\ file.exists
    /\ file' = Missing
    /\ touched' = IF pc = "idle" THEN "no" ELSE "stamp"
    /\ prev' = "none"
    /\ UNCHANGED <<data, last_mtime, lock, pc, call, current_mtime, ret, exit, pre_mtime>>
    /\ hist' = [hist EXCEPT !.fresh = FALSE]
    /\ UNCHANGED ready
    /\ UNCHANGED gateVars
    /\ UNCHANGED surfaceVars

(***************************************************************************)
(* The store's specification.                                              *)
(***************************************************************************)
Queries == {"EDA", "XYZ123", ""}

Calls ==
    { [op |-> "load_data", query |-> "", threshold |-> 0, limit |-> 0],
      [op |-> "get_all", query |-> "", threshold |-> 0, limit |-> 0] }
    \cup [op : {"search"}, query : Queries, threshold : {DefaultThreshold},
          limit : {DefaultLimit}]

\* the service as __init__ leaves it, no call issued
Constructed ==
    /\ data = EmptyList
    /\ last_mtime = NoMtime
    /\ lock = "free"
    /\ pc = "idle"
    /\ call = NoCall
    /\ current_mtime = NoMtime
    /\ ret = NoRet
    /\ exit = "none"
    /\ pre_mtime = NoMtime
    /\ touched = "no"
    /\ prev = "none"
    /\ ready = "none"
    /\ hist = [failed |-> FALSE, fresh |-> FALSE]

StoreInit ==
    /\ file \in Files
    /\ Constructed

\* the operations of AcronymsService
Ops == {"load_data", "search", "get_all"}

StoreNext ==
    \/ \E op \in Ops : Submit(op)
    \/ \E c \in Calls : Start(c)
    \/ LoadExists
    \/ LoadStat
    \/ LoadAcquire
    \/ LoadRead
    \/ SearchCompute
    \/ GetAllCompute
    \/ Ack
    \/ \E c \in Contents, m \in 1..MaxMtime : WriteFile(c, m)
    \/ DeleteFile

\* the gate is not exercised
GateIdle ==
    /\ environ = [MCP_API_KEYS |-> None, GLOSSARY_API_KEYS |-> None]
    /\ req = Nil
    /\ gate = Nil
    /\ app = Nil

\* no surface is exercised
SurfaceIdle ==
    /\ inbound = Nil
    /\ outbound = Nil

\* the store from its construction on, no request at the gate
InitStore == StoreInit /\ GateIdle /\ SurfaceIdle

SpecStore == InitStore /\ [][StoreNext]_vars


(***************************************************************************)
(* search under every threshold and limit, on a file that does not change. *)
(***************************************************************************)
Thresholds == {0, DefaultThreshold, 100}
Limits == {1, 2, DefaultLimit}

\* the queries of the store's specification and a word of an entry's description
SearchQueries == Queries \cup {"Pdf"}

SearchCalls ==
    [op : {"search"}, query : SearchQueries, threshold : Thresholds, limit : Limits]

SearchNext ==
    \/ Submit("search")
    \/ \E c \in SearchCalls : Start(c)
    \/ LoadExists
    \/ LoadStat
    \/ LoadAcquire
    \/ LoadRead
    \/ SearchCompute
    \/ Ack

InitSearch ==
    /\ file \in SearchFiles
    /\ Constructed
    /\ GateIdle
    /\ SurfaceIdle

SpecSearch == InitSearch /\ [][SearchNext]_vars

(***************************************************************************)
(* The surfaces that serve a search: the REST route and the /mcp route of  *)
(* main.py, and the search_acronyms tool of mcp_service.py.  A request is  *)
(* the route's parsed input; a response is the status, the top-level keys  *)
(* of the JSON body, the JSON-RPC error code and id, the payload, and the  *)
(* exception that left the handler (None = none).                          *)
(***************************************************************************)
\* the JSON-RPC error code of main.py
MethodNotFound == -32601

Methods ==
    {"initialize", "initialized", "notifications/initialized", "tools/list",
     "tools/call", "ping", "resources/list", None}

\* "params" is missing, a JSON object or a JSON array; "id" is missing or present
ParamKinds == {"absent", "object", "array"}
Ids == {None, "7"}

\* params.name of a tools/call
Tools == {"search_acronyms", "get_health", "delete_all", None}

SurfaceRequest(surface, method, params, tool, id, query) ==
    [surface |-> surface, method |-> method, params |-> params, tool |-> tool,
     id |-> id, query |-> query]

\* the bodies posted to /mcp
McpEnvelopes ==
    {SurfaceRequest("mcp", m, p, None, id, "") :
        m \in Methods \ {"tools/call"}, p \in ParamKinds, id \in Ids}
    \cup {SurfaceRequest("mcp", "tools/call", "object", t, id, "EDA") : t \in Tools, id \in Ids}
    \cup {SurfaceRequest("mcp", "tools/call", p, None, id, "") :
            p \in {"absent", "array"}, id \in Ids}

\* GET /api/v1/search?q=... (q has at least one character), and the tool's calls
RestRequests == {SurfaceRequest("rest", None, "absent", None, None, q) : q \in Queries \ {""}}
ToolRequests == {SurfaceRequest("tool", None, "absent", None, None, q) : q \in Queries}

SurfaceRequests == McpEnvelopes \cup RestRequests \cup ToolRequests

NoPayload == [kind |-> "none", results |-> <<>>, query |-> "", count |-> 0, detail |-> ""]

\* {"results": results, "query": query, "count": len(results)}
SearchPayload(results, query) ==
    [kind |-> "search", results |-> results, query |-> query, count |-> Len(results),
     detail |-> ""]

Payload(kind) == [NoPayload EXCEPT !.kind = kind]

Response(status, keys, code, id, payload) ==
    [status |-> status, keys |-> keys, code |-> code, id |-> id, payload |-> payload,
     raised |-> None]

\* an exception leaves the handler
Escapes(exc) ==
    [status |-> 500, keys |-> {}, code |-> 0, id |-> None, payload |-> NoPayload,
     raised |-> exc]

\* {"jsonrpc": "2.0", "result": ..., "id": request_id}
RpcResult(id, payload) == Response(200, {"jsonrpc", "result", "id"}, 0, id, payload)

\* the error object without the id of the request
RpcErrorNullId(id, method) ==
    Response(200, {"jsonrpc", "error", "id"}, MethodNotFound, None,
             [NoPayload EXCEPT !.kind = "error", !.detail = "Method not found: " \o method])

\* {"jsonrpc": "2.0", "error": {"code": -32601, "message": ...}, "id": request_id}
RpcError(id, method) ==
    Response(200, {"jsonrpc", "error", "id"}, MethodNotFound, id,
             [NoPayload EXCEPT !.kind = "error", !.detail = "Method not found: " \o method])

\* mcp_endpoint; outcome is what acronyms_service.search(query) returned or raised
mcp_endpoint(body, outcome) ==
    IF body.method = "initialize" THEN
        IF body.params = "array" THEN Escapes("AttributeError")
        ELSE RpcResult(body.id, Payload("initialize"))
    ELSE IF body.method \in {"initialized", "notifications/initialized"} THEN
        IF body.id # None THEN RpcResult(body.id, Payload("empty"))
        ELSE Response(200, {}, 0, None, NoPayload)
    ELSE IF body.method = "tools/list" THEN RpcResult(body.id, Payload("tools"))
    ELSE IF body.method = "tools/call" THEN
        IF body.params = "array" THEN Escapes("AttributeError")
        ELSE IF body.tool = "search_acronyms" THEN
            IF outcome.raised # None THEN Escapes(outcome.raised)
            ELSE RpcResult(body.id, SearchPayload(outcome.value, body.query))
        ELSE IF body.tool = "get_health" THEN RpcResult(body.id, Payload("health"))
        ELSE RpcError(body.id, body.method)
    ELSE IF body.method = "ping" THEN RpcResult(body.id, Payload("empty"))
    ELSE RpcError(body.id, body.method)

\* rest_search_acronyms: SearchResponse, or HTTPException(500)
rest_search_acronyms(q, outcome) ==
    IF outcome.raised # None
    THEN Response(500, {"detail"}, 0, None,
                  [NoPayload EXCEPT !.kind = "error",
                                    !.detail = "Internal server error during search"])
    ELSE Response(200, {"results", "query", "count"}, 0, None,
                  SearchPayload(outcome.value, q))

\* the tool search_acronyms of mcp_service.py: a JSON string in both cases
search_acronyms(query, outcome) ==
    IF outcome.raised # None
    THEN Response(0, {"error", "query", "results", "count"}, 0, None,
                  [SearchPayload(<<>>, query) EXCEPT
                      !.kind = "error", !.detail = "Search failed: " \o outcome.raised])
    ELSE Response(0, {"results", "query", "count"}, 0, None,
                  SearchPayload(outcome.value, query))

\* the handler awaits acronyms_service.search
CallsSearch(r) ==
    \/ r.surface \in {"rest", "tool"}
    \/ /\ r.surface = "mcp"
       /\ r.method = "tools/call"
       /\ r.params = "object"
       /\ r.tool = "search_acronyms"

\* a request reaches its handler (the previous one has been answered)
Arrive(r) ==
    /\ inbound = Nil \/ outbound # Nil
    /\ pc = "idle"
    /\ ready = "none"
    /\ inbound' = r
    /\ outbound' = Nil
    /\ UNCHANGED storeVars
    /\ UNCHANGED gateVars

\* the handler reaches "await acronyms_service.search(...)"
SurfaceSubmit ==
    /\ inbound # Nil
    /\ outbound = Nil
    /\ CallsSearch(inbound)
    /\ pc = "idle"
    /\ Submit("search")

\* search(query) runs with the default threshold and limit
SurfaceStart ==
    /\ inbound # Nil
    /\ outbound = Nil
    /\ Start([op |-> "search", query |-> inbound.query,
              threshold |-> DefaultThreshold, limit |-> DefaultLimit])

\* the handler builds its response, or the exception leaves it
Reply ==
    /\ inbound # Nil
    /\ outbound = Nil
    /\ IF CallsSearch(inbound) THEN pc = "done" ELSE pc = "idle"
    /\ outbound' = IF inbound.surface = "rest" THEN rest_search_acronyms(inbound.query, ret)
                   ELSE IF inbound.surface = "tool" THEN search_acronyms(inbound.query, ret)
                   ELSE mcp_endpoint(inbound, ret)
    /\ UNCHANGED inbound
    /\ UNCHANGED storeVars
    /\ UNCHANGED gateVars

\* the call of the handler is over once the handler has answered
SurfaceAck ==
    /\ outbound # Nil
    /\ Ack

SurfaceNext ==
    \/ \E r \in SurfaceRequests : Arrive(r)
    \/ SurfaceSubmit
    \/ SurfaceStart
    \/ LoadExists
    \/ LoadStat
    \/ LoadAcquire
    \/ LoadRead
    \/ SearchCompute
    \/ Reply
    \/ SurfaceAck

InitSurface ==
    /\ StoreInit
    /\ GateIdle
    /\ SurfaceIdle

SpecSurface == InitSurface /\ [][SurfaceNext]_vars

\* the store is not exercised
StoreIdle == StoreInit /\ file = Missing

\* the gate under every configuration, the store left as constructed
InitGate == GateInit /\ StoreIdle /\ SurfaceIdle

SpecGate == InitGate /\ [][GateNext]_vars

(***************************************************************************)
(* Properties of the Access Gate.                                          *)
(***************************************************************************)
\* the X-API-Key header value the client sent, in whatever casing (None = no header)
PresentedKey(r) ==
    IF \E i \in DOMAIN r.headers : r.headers[i][1] \in HeaderNames
    THEN r.headers[CHOOSE i \in DOMAIN r.headers : r.headers[i][1] \in HeaderNames][2]
    ELSE None

\* MCP_API_KEYS holds a non-empty value
AllowListConfigured == environ.MCP_API_KEYS \notin {None, ""}

\* the paths of the model under the protected prefix, and those outside it
ProtectedPaths == {"/mcp", "/mcp/messages"}
OpenPaths == Paths \ ProtectedPaths

\* C1: every rejection by MCPAuthMiddleware.dispatch has status 403, never 401,
\* and carries no WWW-Authenticate header.
C1_RejectionIs403NoChallenge ==
    (gate # Nil /\ gate.outcome = "reject") =>
        /\ gate.status = 403
        /\ gate.status # 401
        /\ "WWW-Authenticate" \notin gate.headers

\* a request with an invalid key on a protected path has been rejected
C1_Witness ==
    /\ gate # Nil
    /\ gate.outcome = "reject"
    /\ gate.error = "Invalid API key"
    /\ req.path = "/mcp/messages"

\* C2: with an allow-list configured, a request under /mcp is forwarded if and only
\* if it presents a key (either header casing) that is a member of the allow-list;
\* otherwise it is rejected and the next stage is not invoked.
C2_ForwardIffKeyInAllowList ==
    (gate # Nil /\ req.path \in ProtectedPaths /\ AllowListConfigured) =>
        /\ (gate.outcome = "forward") <=>
              (PresentedKey(req) \in Range(ParseKeys(environ.MCP_API_KEYS)))
        /\ gate.outcome = "forward" => gate.nextCalls = 1
        /\ gate.outcome # "forward" => (gate.outcome = "reject" /\ gate.nextCalls = 0)

\* a valid key sent under the lower-case header name has been forwarded, with a
\* second key in the allow-list
C2_Witness ==
    /\ gate # Nil
    /\ req.path = "/mcp"
    /\ environ.MCP_API_KEYS = "zz,zzzzzzz"
    /\ req.headers = <<<<"x-api-key", "zz">>>>
    /\ gate.outcome = "forward"

\* C3: with MCP_API_KEYS unset or empty, every request under /mcp is forwarded,
\* with or without a credential header, and none is rejected.
C3_NoAllowListMeansOpen ==
    (gate # Nil /\ req.path \in ProtectedPaths /\ ~AllowListConfigured) =>
        (gate.outcome = "forward" /\ gate.nextCalls = 1)

\* a request without any header went through with MCP_API_KEYS unset
C3_Witness ==
    /\ gate # Nil
    /\ req.path = "/mcp/messages"
    /\ environ.MCP_API_KEYS = None
    /\ req.headers = <<>>
    /\ gate.outcome = "forward"

\* C4: a request outside the /mcp prefix is forwarded exactly once and never
\* rejected, whatever the allow-list and the credential header.
C4_OpenPathsPassThrough ==
    (gate # Nil /\ req.path \in OpenPaths) =>
        (gate.outcome = "forward" /\ gate.nextCalls = 1)

\* the REST search went through with an allow-list configured and an invalid key
C4_Witness ==
    /\ gate # Nil
    /\ req.path = "/api/v1/search"
    /\ environ.MCP_API_KEYS = "zz"
    /\ req.headers = <<<<"X-API-Key", "z">>>>
    /\ gate.outcome = "forward"

\* C5: the application of main.py answers every request under /mcp as
\* MCPAuthMiddleware.dispatch decides it: same outcome, same rejection status,
\* same challenge headers.
C5_AppFollowsGate ==
    (app # Nil /\ req.path \in ProtectedPaths) =>
        LET g == dispatch(environ, req) IN
        /\ app.outcome = g.outcome
        /\ app.status = g.status
        /\ app.headers = g.headers

\* C6: whenever the Gate logs a credential, the logged text does not contain the
\* full presented key.
C6_LoggedKeyIsNeverWhole ==
    (gate # Nil /\ req.path \in ProtectedPaths /\ AllowListConfigured
        /\ PresentedKey(req) \notin {None, ""}) =>
        \A i \in DOMAIN gate.log : ~Contains(gate.log[i], PresentedKey(req))

(***************************************************************************)
(* Properties of the Glossary Store.                                       *)
(***************************************************************************)
\* the file is missing, is no JSON, or parses to neither a list nor an object
\* with the "acronyms" key
BadFile(f) ==
    \/ ~f.exists
    \/ f.content.syntax = "invalid"
    \/ ~(f.content.top = "list" \/ (f.content.top = "dict" /\ f.content.key = "acronyms"))

\* the file holds a list of entries, bare or under "acronyms"
ValidList(f) ==
    /\ f.exists
    /\ f.content.syntax = "json"
    /\ \/ f.content.top = "list"
       \/ (f.content.top = "dict" /\ f.content.key = "acronyms" /\ f.content.val.type = "list")

\* the file carries the modification time recorded when the call started
StampRecorded == pre_mtime # NoMtime /\ file.exists /\ file.mtime = pre_mtime

\* the call has returned and the file is as load_data last saw it
Returned == pc = "done" /\ (call.op = "load_data" \/ touched = "no")

\* C7 as stated: whenever the file is missing, malformed or of the wrong shape,
\* load_data returns normally and leaves the collection empty, and a search
\* returns the empty result.
C7_BadFileAlwaysEmpties ==
    (Returned /\ BadFile(file)) =>
        (exit # "raised" /\ ret = NoRet /\ data = EmptyList)

\* C7 (amended): load_data never raises; when the file is missing, or is read
\* (its modification time is not the one recorded by an earlier load) and is
\* malformed or of the wrong shape, the collection is empty afterwards and a
\* search returns the empty result without raising.
C7_LoadNeverRaises ==
    /\ exit # "raised"
    /\ (pc = "done" /\ call.op = "load_data") => ret = NoRet
    /\ (Returned /\ BadFile(file) /\ ~StampRecorded) =>
           (ret = NoRet /\ data = EmptyList)

\* a search on a file gone malformed after an earlier load, under a new
\* modification time, has returned
C7_Witness ==
    /\ pc = "done"
    /\ call.op = "search"
    /\ call.query = "EDA"
    /\ touched = "no"
    /\ pre_mtime # NoMtime
    /\ file.exists
    /\ file.content = Malformed
    /\ exit = "json_error"

\* C8: while the file keeps the modification time recorded in last_mtime, no
\* step of load_data, search or get_all changes data or last_mtime, whatever
\* the file's content has become.
C8_SameStampNotObserved ==
    [][(last_mtime # NoMtime /\ file.exists /\ file.mtime = last_mtime
            /\ touched' # "stamp")
        => (data' = data /\ last_mtime' = last_mtime)]_vars

\* a search has been answered from version A while the file holds version B
\* under the recorded modification time
C8_Witness ==
    /\ pc = "done"
    /\ call.op = "search"
    /\ exit = "unchanged"
    /\ file.exists
    /\ file.mtime = last_mtime
    /\ file.content = ListDoc(VersionB)
    /\ data = JList(VersionA)
    /\ ret.value # <<>>

\* C9: a call that follows a completed call, the file not having changed since
\* that call began, leaves data and last_mtime as they were; when the first call
\* loaded the file, the second leaves load_data at the timestamp check.
C9_SecondLoadIsNoOp ==
    [][(prev # "none" => (data' = data /\ last_mtime' = last_mtime))
        /\ ((prev = "loaded" /\ exit = "none" /\ exit' # "none") => exit' = "unchanged")]_vars

\* a second load_data in a row has returned after the first one loaded version B
C9_Witness ==
    /\ pc = "done"
    /\ call.op = "load_data"
    /\ prev = "loaded"
    /\ touched = "no"
    /\ exit = "unchanged"
    /\ data = JList(VersionB)

\* C10: a search or get_all that runs on a file holding a valid list under a
\* modification time other than the recorded one (the file not changing during
\* the call) holds the file's list in data and answers from it.
C10_ReadPathsSeeNewStamp ==
    (pc = "done" /\ call.op \in {"search", "get_all"} /\ touched = "no"
        /\ ValidList(file) /\ file.mtime # pre_mtime) =>
        /\ data = file.content.val
        /\ ret = IF call.op = "search"
                 THEN SearchBody(file.content.val, call.query, call.threshold, call.limit)
                 ELSE [raised |-> None, value |-> file.content.val.items]

\* a search for a term that only the new version holds has found it, an older
\* version having been loaded before
C10_Witness ==
    /\ pc = "done"
    /\ call.op = "search"
    /\ call.query = "XYZ123"
    /\ touched = "no"
    /\ pre_mtime # NoMtime
    /\ file.exists
    /\ file.mtime # pre_mtime
    /\ file.content = ListDoc(VersionB)
    /\ Len(ret.value) = 1
    /\ ret.value[1].term = "XYZ123"

\* C11: last_mtime is None until a load has succeeded, and whenever a step gives
\* data or last_mtime a new value with a timestamp recorded, the file read carries
\* the recorded timestamp and data is its parsed content (the recorded timestamp
\* names the snapshot held).
C11_StampNamesSnapshot ==
    [][/\ last_mtime' # last_mtime => exit' = "loaded"
       /\ ((data' # data \/ last_mtime' # last_mtime) /\ last_mtime' # NoMtime) =>
              (file.exists /\ file.mtime = last_mtime' /\ data' = Collection(file.content))]_vars

\* a result of search without the score attached to it
Unscored(r) == [k \in DOMAIN r \ {"score"} |-> r[k]]

\* C12: every step leaves the collection as it is or replaces it as a whole, by the
\* empty collection or by the complete parsed content of the file, also while
\* another call is in flight; and the results of one search are all entries of the
\* one collection held when it returns.
C12_WholeCollectionsOnly ==
    [][/\ \/ data' = data
          \/ data' = EmptyList
          \/ (file.exists /\ data' = Collection(file.content))
       /\ (pc' = "done" /\ call'.op = "search") =>
              \A i \in DOMAIN ret'.value : Unscored(ret'.value[i]) \in Range(data'.items)]_vars

\* a reload has replaced version A by version B while a search was waiting
C12_Witness ==
    /\ pc = "done"
    /\ call.op = "load_data"
    /\ exit = "loaded"
    /\ ready = "search"
    /\ pre_mtime # NoMtime
    /\ file.content = ListDoc(VersionB)
    /\ data = JList(VersionB)

SearchReturned == pc = "done" /\ call.op = "search" /\ ret.raised = None

\* C14: for a non-empty query, whatever the threshold and the limit, search
\* returns at most limit results, each with a score between 0 and 100, in
\* descending order of score.
C14_AtMostLimitScoredSorted ==
    (SearchReturned /\ call.query # "") =>
        /\ Len(ret.value) <= call.limit
        /\ \A i \in DOMAIN ret.value : ret.value[i].score \in 0..100
        /\ \A i, j \in DOMAIN ret.value :
               i < j => ret.value[i].score >= ret.value[j].score

\* a search with threshold 0 and limit 2 on three entries has returned two results
\* with different scores
C14_Witness ==
    /\ SearchReturned
    /\ call.query = "EDA"
    /\ call.threshold = 0
    /\ call.limit = 2
    /\ data = JList(VersionC)
    /\ Len(ret.value) = 2
    /\ ret.value[1].score > ret.value[2].score

\* C15: search returns the empty sequence whenever the query is the empty string
\* and whenever the collection is empty after the reload (no file, failed load,
\* wrong shape, empty list), whatever the query, the threshold and the limit.
C15_EmptyQueryOrCollectionGivesEmpty ==
    (pc = "done" /\ call.op = "search" /\ (call.query = "" \/ data = EmptyList)) =>
        ret = NoRet

\* the empty query with threshold 0 on a collection of three entries has returned
\* the empty sequence
C15_Witness ==
    /\ pc = "done"
    /\ call.op = "search"
    /\ call.query = ""
    /\ call.threshold = 0
    /\ data = JList(VersionC)
    /\ ret = NoRet

\* the reference procedure of the spec: score every entry, select by threshold or
\* by the substring rule, sort the selection by score descending (stable),
\* truncate to limit
SearchReference(items, query, threshold, limit) ==
    IF query = "" \/ Len(items) = 0 THEN <<>>
    ELSE
        LET scored == [i \in 1..Len(items) |->
                          [str |-> SearchStr(items[i]),
                           score |-> WRatio(query, SearchStr(items[i])), idx |-> i]]
            chosen == SelectSeq(scored, LAMBDA m :
                          \/ m.score >= threshold
                          \/ (Contains(LowerStr(m.str), LowerStr(query)) /\ m.score >= 60))
            results == [i \in 1..Len(chosen) |->
                           ("score" :> chosen[i].score) @@ items[chosen[i].idx]]
        IN  Take(SortDesc(results), limit)

\* C16: for every collection, query, threshold and limit, search returns the
\* sequence of the reference procedure (select among all entries, sort, truncate).
C16_SearchIsReferenceProcedure ==
    (SearchReturned /\ data.type = "list") =>
        ret.value = SearchReference(data.items, call.query, call.threshold, call.limit)

\* C17: search never raises, whatever load_data has accepted into the collection.
C17_SearchNeverRaises ==
    (pc = "done" /\ call.op = "search") => ret.raised = None

\* a search with the default threshold and limit has returned, on the list that
\* the file holds, which has no more entries than the limit
DefaultSearchOnLoaded ==
    /\ SearchReturned
    /\ call.threshold = DefaultThreshold
    /\ call.limit = DefaultLimit
    /\ ValidList(file)
    /\ data = file.content.val
    /\ Len(data.items) <= call.limit

RecognizedMethods ==
    {"initialize", "initialized", "notifications/initialized", "tools/list",
     "tools/call", "ping"}

\* /mcp has answered the envelope in inbound, or an exception has left it
McpAnswered == inbound # Nil /\ inbound.surface = "mcp" /\ outbound # Nil

\* the method-not-found error with the id of the request, and no result
IsMethodNotFound(resp, req_id) ==
    /\ resp.raised = None
    /\ "error" \in resp.keys
    /\ "result" \notin resp.keys
    /\ resp.code = -32601
    /\ resp.id = req_id

\* a result with the id of the request, and no error
IsResult(resp, req_id) ==
    /\ resp.raised = None
    /\ "result" \in resp.keys
    /\ "error" \notin resp.keys
    /\ "id" \in resp.keys
    /\ resp.id = req_id

EmptyResultResponse(r) ==
    IF r.surface = "rest" THEN rest_search_acronyms(r.query, NoRet)
    ELSE IF r.surface = "tool" THEN search_acronyms(r.query, NoRet)
    ELSE mcp_endpoint(r, NoRet)

\* C20: when the store's search raises while a request is served, every surface
\* answers with an error response of its own, no credential denial and no
\* empty result: 500 with the generic detail on the REST route, an error payload
\* on /mcp and from the tool; the exception does not leave the handler.
C20_FaultsBecomeErrorResponses ==
    (inbound # Nil /\ outbound # Nil /\ CallsSearch(inbound) /\ pc = "done"
        /\ ret.raised # None) =>
        /\ outbound.raised = None
        /\ outbound.status \notin {401, 403}
        /\ outbound # EmptyResultResponse(inbound)
        /\ inbound.surface = "rest" =>
              (outbound.status = 500
               /\ outbound.payload.detail = "Internal server error during search")
        /\ inbound.surface \in {"mcp", "tool"} => "error" \in outbound.keys

(***************************************************************************)
(* Claims about the application's own credential check (main.py).          *)
(***************************************************************************)
\* the keys configured for the application in GLOSSARY_API_KEYS
GlossaryKeys == Range(ParseKeys(GetEnv(environ, "GLOSSARY_API_KEYS")))

\* the request is a tools/call of the get_health tool
IsHealthCall(r) ==
    r.body.kind = "object" /\ r.body.method = "tools/call" /\ r.body.tool = "get_health"

\* the application has rejected the request with 401 and the X-API-Key challenge
Rejected401 ==
    /\ app.outcome = "reject"
    /\ app.status = 401
    /\ app.error = "Invalid or missing API key"
    /\ app.headers = {"WWW-Authenticate"}
    /\ app.nextCalls = 0

ScoredForQuery(r) ==
    "score" \in DOMAIN r /\ r.score = WRatio(call.query, SearchStr(Unscored(r)))

\* the searchable string of the returned record r contains the query, case folded
ContainsQuery(r) ==
    Contains(LowerStr(SearchStr(Unscored(r))), LowerStr(call.query))

\* the selection rule on a returned record
MeetsSelectionRule(r) ==
    \/ r.score >= call.threshold
    \/ (ContainsQuery(r) /\ r.score >= 60)

\* C22 as stated: every record returned by search satisfies the selection rule,
\* no returned record scores below 60, and none below the threshold fails to
\* contain the query.
C22_SelectionRuleAndFloor60 ==
    SearchReturned =>
        \A i \in DOMAIN ret.value :
            /\ ScoredForQuery(ret.value[i])
            /\ MeetsSelectionRule(ret.value[i])
            /\ ret.value[i].score >= 60
            /\ ret.value[i].score < call.threshold => ContainsQuery(ret.value[i])

\* C22: every record returned by search carries the score of its entry and
\* satisfies the selection rule: its score is >= threshold, or its searchable
\* string contains the query case-insensitively and its score is >= 60; no record
\* scoring below both 60 and the threshold, and none below the threshold that
\* does not contain the query, is returned.
C22_SelectionRule ==
    SearchReturned =>
        \A i \in DOMAIN ret.value :
            /\ ScoredForQuery(ret.value[i])
            /\ MeetsSelectionRule(ret.value[i])
            /\ ret.value[i].score >= Min(60, call.threshold)
            /\ ret.value[i].score < call.threshold => ContainsQuery(ret.value[i])

\* a search with threshold 100 on three entries has returned the one entry that
\* contains the query, with its score of 60, and not the entry scoring 66
C22_Witness ==
    /\ SearchReturned
    /\ call.query = "EDA"
    /\ call.threshold = 100
    /\ call.limit = DefaultLimit
    /\ data = JList(VersionC)
    /\ Len(ret.value) = 1
    /\ Unscored(ret.value[1]) = EDA
    /\ ret.value[1].score = 60

(***************************************************************************)
(* Claims about what search leaves in the store.                           *)
(***************************************************************************)
\* no entry of the collection c carries a score field
NoScoreIn(c) == \A i \in DOMAIN c.items : "score" \notin DOMAIN c.items[i]

\* the entries of the sequence s are pairwise different
Distinct(s) == \A i, j \in DOMAIN s : i # j => s[i] # s[j]

\* C23: search does not modify the store: once its load_data has returned, no
\* step of a search changes the collection or an entry of it (the score goes to
\* a copy), no stored entry carries a score field, a search returns each stored
\* entry at most once, and get_all returns entries without a score field.
C23_SearchLeavesStoreAlone ==
    [][/\ (call.op = "search" /\ pc = "compute") => data' = data
       /\ NoScoreIn(data')
       /\ (pc' = "done" /\ call'.op = "search" /\ ret'.raised = None
             /\ Distinct(data'.items)) => Distinct(ret'.value)
       /\ (pc' = "done" /\ call'.op = "get_all" /\ ret'.raised = None) =>
              /\ ret'.value = data'.items
              /\ \A i \in DOMAIN ret'.value : "score" \notin DOMAIN ret'.value[i]]_vars

\* a search has returned the entry EDA with its score while the store holds the
\* two entries of version A as they were loaded
C23_Witness ==
    /\ SearchReturned
    /\ call.query = "EDA"
    /\ data = JList(VersionA)
    /\ Len(ret.value) = 1
    /\ ret.value[1] = ("score" :> 60) @@ EDA
    /\ data.items[1] = EDA

(***************************************************************************)
(* Claims about recovery after a failed load.                              *)
(***************************************************************************)
\* load_data leaves in this step, in a call during which the file, present with
\* valid content, has not been touched, and that found the store emptied by a
\* failed load
LeavesAfterFailure ==
    /\ hist.failed
    /\ exit = "none"
    /\ exit' # "none"
    /\ touched = "no"
    /\ ValidList(file)

\* C24: a store emptied by a failed load recovers: once the source is present
\* again with valid content, the next load_data leaves data equal to the content
\* of the file on disk, also when the restored file has the modification time of
\* the version loaded before the failure.
C24_RecoversAfterFailedLoad ==
    [][LeavesAfterFailure => data' = file.content.val]_vars

(***************************************************************************)
(* Claims about the allow-list MCPAuthMiddleware parses.                   *)
(***************************************************************************)
\* the tokens MCP_API_KEYS yields after splitting on commas and trimming
AllowList == ParseKeys(GetEnv(environ, "MCP_API_KEYS"))

\* C25: the Gate enforces credentials only when the allow-list parsed from
\* MCP_API_KEYS holds at least one token: when the value yields no token (unset,
\* empty, only commas or whitespace) every request is forwarded, so enforcement
\* is never on with no credential that can be admitted.
C25_NoTokenMeansOpen ==
    (gate # Nil /\ AllowList = <<>>) => gate.outcome = "forward"

(***************************************************************************)
(* Claims about failure paths and successful loads of different calls.     *)
(***************************************************************************)
\* the file is present with valid content and has not been touched since the
\* last successful load read it
ValidSinceLoad(f, h) == h.fresh /\ ValidList(f)

\* load_data leaves by a failure path in this step
TakesFailurePath == exit = "none" /\ exit' \in {"missing", "json_error", "error"}

DescribedBy(e, query) ==
    /\ "term" \in DOMAIN e
    /\ "description" \in DOMAIN e
    /\ "full_name" \notin DOMAIN e
    /\ query # ""
    /\ Contains(LowerStr(e.description), LowerStr(query))

\* C27: the string search scores and substring-tests for an entry is its term
\* followed by a space and its full_name, or by its description when it has a
\* description and no full_name, so an entry with only term and description is
\* matched by a word of its description: a search for such a word on a
\* collection of at most limit entries returns the entry (its string contains
\* the query, and a contained query scores at least 60).
C27_DescriptionIsSearchable ==
    (SearchReturned /\ data.type = "list" /\ Len(data.items) <= call.limit) =>
        \A e \in Range(data.items) :
            DescribedBy(e, call.query) =>
                \E i \in DOMAIN ret.value : Unscored(ret.value[i]) = e

====
